---------------------------- MODULE Spec2Model ----------------------------
(***************************************************************************)
(* daily_research.py: the daily research pipeline.                         *)
(*                                                                         *)
(* Two parts are modelled.                                                 *)
(*  - parse_topics, the pure function that turns the agent's markdown into *)
(*    topic records, on texts that are sequences of characters;            *)
(*  - main / run_with_retry / collect_all, the orchestration of one        *)
(*    invocation of the script: the duplicate check, the retry loop, the   *)
(*    per-category collection and the external steps (agent call, HTML     *)
(*    rendering, git push, Teams notification), each of which may fail.    *)
(*                                                                         *)
(* A text is a sequence of one-character strings.  One date is modelled:   *)
(* every invocation runs on the same day.                                  *)
(***************************************************************************)
EXTENDS Integers, Sequences, FiniteSets, TLC

(***************************************************************************)
(* Bounds of the model.                                                    *)
(***************************************************************************)
\* number of configured categories (config["categories"])
NumCats == 3
\* largest configured retry_max
MaxRetryMax == 3
\* number of invocations of the script that are followed
MaxRuns == 2
\* largest number of lines of a text given to parse_topics
MaxLines == 4

(***************************************************************************)
(* Program constants.                                                      *)
(***************************************************************************)
\* raw_result[:500]
FallbackSummaryMax == 500
\* config.get("retry_interval_sec", 1800)
DefaultRetryIntervalSec == 1800

(***************************************************************************)
(* Texts.  Python's str methods and the regular expressions of             *)
(* parse_topics, on sequences of characters.                               *)
(***************************************************************************)
\* a string literal as a sequence of its characters
Chars(s) == [i \in 1..Len(s) |-> SubSeq(s, i, i)]

\* the characters str.strip() removes and \s matches
IsSpace(c) == c \in {" ", "\n", "\t", "\r"}

\* s[i:] and s[:n] (1-based i)
DropTo(s, i) == SubSeq(s, i, Len(s))
Take(s, n) == SubSeq(s, 1, IF n < Len(s) THEN n ELSE Len(s))

\* s.startswith(pat, i-1)
StartsWithAt(s, i, pat) ==
    /\ i >= 1
    /\ i + Len(pat) - 1 <= Len(s)
    /\ \A k \in 1..Len(pat) : s[i + k - 1] = pat[k]

\* str.strip()
Strip(s) ==
    IF \A i \in 1..Len(s) : IsSpace(s[i]) THEN <<>>
    ELSE LET first == CHOOSE i \in 1..Len(s) :
                         ~IsSpace(s[i]) /\ \A j \in 1..(i - 1) : IsSpace(s[j])
             last  == CHOOSE i \in 1..Len(s) :
                         ~IsSpace(s[i]) /\ \A j \in (i + 1)..Len(s) : IsSpace(s[j])
         IN  SubSeq(s, first, last)

\* the elements of a set of numbers in increasing order
SortedSeq(S) ==
    [k \in 1..Cardinality(S) |->
        CHOOSE i \in S : Cardinality({j \in S : j < i}) = k - 1]

\* re.split(r'(?=^### )', text, flags=re.MULTILINE): the text is cut before
\* every "### " that stands at the start of a line; a cut at the very start
\* leaves an empty first piece
HeadingMarker == Chars("### ")
SplitPoints(markdown_text) ==
    {i \in 1..Len(markdown_text) :
        /\ (i = 1 \/ markdown_text[i - 1] = "\n")
        /\ StartsWithAt(markdown_text, i, HeadingMarker)}
SplitSections(markdown_text) ==
    LET cuts == SortedSeq(SplitPoints(markdown_text))
        n    == Len(cuts)
    IN  [k \in 1..(n + 1) |->
            SubSeq(markdown_text,
                   IF k = 1 THEN 1 ELSE cuts[k - 1],
                   IF k = n + 1 THEN Len(markdown_text) ELSE cuts[k] - 1)]

\* str.split("\n")
SplitLines(s) ==
    LET nl == SortedSeq({i \in 1..Len(s) : s[i] = "\n"})
        n  == Len(nl)
    IN  [k \in 1..(n + 1) |->
            SubSeq(s,
                   IF k = 1 THEN 1 ELSE nl[k - 1] + 1,
                   IF k = n + 1 THEN Len(s) ELSE nl[k] - 1)]

\* str.replace(pat, ""): every occurrence, left to right, not overlapping;
\* rest[i] is s[i-1:] with the occurrences removed
RemoveAll(s, pat) ==
    LET rest[i \in 1..(Len(s) + 1)] ==
            LET occ == {j \in i..Len(s) : StartsWithAt(s, j, pat)}
            IN  IF occ = {} THEN DropTo(s, i)
                ELSE LET j == CHOOSE x \in occ : \A y \in occ : x <= y
                     IN  SubSeq(s, i, j - 1) \o rest[j + Len(pat)]
    IN  rest[1]

\* sep.join(parts); joined[n] is the first n parts joined
Join(sep, parts) ==
    LET joined[n \in 0..Len(parts)] ==
            IF n = 0 THEN <<>>
            ELSE IF n = 1 THEN parts[1]
            ELSE joined[n - 1] \o sep \o parts[n]
    IN  joined[Len(parts)]

\* https?://
UrlSchemes == {Chars("http://"), Chars("https://")}

\* the labels of a source line: Source, and the Japanese words for it, whose
\* characters are written by their code points
SourceLabels ==
    {Chars("Source"), <<"U+30BD", "U+30FC", "U+30B9">>, <<"U+51FA", "U+5178">>}
\* ':' and the full-width colon
Colons == {":", "U+FF1A"}

\* re.match(r'(?:Source|...)[:：]\s*(https?://\S+)', line): group(1), or <<>>
\* when the line does not match (a match is never empty)
LabeledSource(line) ==
    LET hits == {lab \in SourceLabels :
                    /\ StartsWithAt(line, 1, lab)
                    /\ Len(line) > Len(lab)
                    /\ line[Len(lab) + 1] \in Colons}
    IN  IF hits = {} THEN <<>>
        ELSE LET lab   == CHOOSE l \in hits : TRUE
                 after == Len(lab) + 2
                 \* \s* : the first character that is not white space
                 rest  == {i \in after..Len(line) : ~IsSpace(line[i])}
             IN  IF rest = {} THEN <<>>
                 ELSE LET q   == CHOOSE i \in rest : \A j \in rest : i <= j
                          sch == {u \in UrlSchemes : StartsWithAt(line, q, u)}
                      IN  IF sch = {} THEN <<>>
                          ELSE LET u    == CHOOSE x \in sch : TRUE
                                   e    == q + Len(u)
                                   \* \S+ : up to the next white space
                                   stop == {i \in e..Len(line) : IsSpace(line[i])}
                                   last == IF stop = {} THEN Len(line)
                                           ELSE (CHOOSE i \in stop :
                                                    \A j \in stop : i <= j) - 1
                               IN  IF last < e THEN <<>>
                                   ELSE SubSeq(line, q, last)

\* re.match(r'-?\s*\[.*?\]\(https?://.*?\)', line)
IsMarkdownLink(line) ==
    LET i0   == IF Len(line) >= 1 /\ line[1] = "-" THEN 2 ELSE 1
        rest == {i \in i0..Len(line) : ~IsSpace(line[i])}
    IN  /\ rest # {}
        /\ LET i1 == CHOOSE i \in rest : \A j \in rest : i <= j
           IN  /\ line[i1] = "["
               /\ \E j \in (i1 + 1)..Len(line) :
                     /\ StartsWithAt(line, j, <<"]", "(">>)
                     /\ \E u \in UrlSchemes :
                           /\ StartsWithAt(line, j + 2, u)
                           /\ \E k \in (j + 2 + Len(u))..Len(line) : line[k] = ")"

\* re.search(r'\((https?://[^\)]+)\)', line): group(1) of the leftmost
\* match, or <<>> when there is none
UrlAt(line, i) ==
    IF i > Len(line) \/ line[i] # "(" THEN <<>>
    ELSE LET sch == {u \in UrlSchemes : StartsWithAt(line, i + 1, u)}
         IN  IF sch = {} THEN <<>>
             ELSE LET u      == CHOOSE x \in sch : TRUE
                      e      == i + 1 + Len(u)
                      closes == {k \in e..Len(line) : line[k] = ")"}
                  IN  IF closes = {} THEN <<>>
                      ELSE LET k == CHOOSE x \in closes : \A y \in closes : x <= y
                           IN  IF k = e THEN <<>> ELSE SubSeq(line, i + 1, k - 1)
ParenthesizedUrl(line) ==
    LET at == {i \in 1..Len(line) : UrlAt(line, i) # <<>>}
    IN  IF at = {} THEN <<>>
        ELSE UrlAt(line, CHOOSE i \in at : \A j \in at : i <= j)

(***************************************************************************)
(* parse_topics.                                                           *)
(***************************************************************************)
\* a topic record
Topic(title, summary, source) ==
    [title |-> title, summary |-> summary, source |-> source]

\* section.startswith("###"), on the stripped section
IsHeadingSection(section) == StartsWithAt(section, 1, Chars("###"))

\* lines[0].replace("### ", "").strip()
TitleOf(line) == Strip(RemoveAll(line, HeadingMarker))

\* (mutant) a markdown link does not replace a source found earlier
SourceAfterLinkKeepsEarlier(source, url) == IF source # <<>> THEN source ELSE url

\* source after a labeled source line, and after a markdown link line whose
\* URL was found: both assign it
SourceAfterLabel(source, url) == url
SourceAfterLink(source, url) == url

\* one pass of the loop over lines[1:]; acc is [source, summary_lines]
ScanLine(acc, rawline) ==
    LET line == Strip(rawline)
    IN  IF line = <<>> \/ line = Chars("---") THEN acc
        ELSE IF LabeledSource(line) # <<>>
             THEN [acc EXCEPT !.source = SourceAfterLabel(@, LabeledSource(line))]
        ELSE IF IsMarkdownLink(line)
             THEN IF ParenthesizedUrl(line) # <<>>
                  THEN [acc EXCEPT !.source =
                                      SourceAfterLink(@, ParenthesizedUrl(line))]
                  ELSE acc
        ELSE [acc EXCEPT !.summary_lines = Append(@, line)]

\* the loop over lines[1:]; after[n] is the state after n of the lines
ScanLines(acc, lines) ==
    LET after[n \in 0..Len(lines)] ==
            IF n = 0 THEN acc ELSE ScanLine(after[n - 1], lines[n])
    IN  after[Len(lines)]

\* the body of the loop over sections: the topics a section adds (none or one)
SectionTopics(rawsection) ==
    LET section == Strip(rawsection)
    IN  IF ~IsHeadingSection(section) THEN <<>>
        ELSE LET lines   == SplitLines(section)
                 title   == TitleOf(lines[1])
                 acc     == ScanLines([source |-> <<>>, summary_lines |-> <<>>],
                                      Tail(lines))
                 summary == Strip(Join(<<" ">>, acc.summary_lines))
             IN  IF title # <<>> THEN <<Topic(title, summary, acc.source)>>
                 ELSE <<>>

\* the loop over the sections; topics[n] is the list after n sections
TopicsOfSections(sections) ==
    LET topics[n \in 0..Len(sections)] ==
            IF n = 0 THEN <<>> ELSE topics[n - 1] \o SectionTopics(sections[n])
    IN  topics[Len(sections)]

parse_topics(markdown_text) == TopicsOfSections(SplitSections(markdown_text))

(***************************************************************************)
(* The configuration and the environment of a run.                         *)
(***************************************************************************)
\* the script is run by these processes; Spec runs the first one alone
Procs == {1, 2}

\* config["categories"]: the keys in configured order, and the display names
CategoryKeys == 1..NumCats
CategoryName(key) == Chars("Category ") \o <<ToString(key)>>

\* config.get("retry_max", 3): any integer may be configured
RetryMaxValues == (-1)..MaxRetryMax
\* config.get("retry_interval_sec", 1800)
RetryIntervalValues == {60, DefaultRetryIntervalSec}
Configs ==
    [retry_max : RetryMaxValues, retry_interval_sec : RetryIntervalValues]

\* sys.argv: the two flags main looks for
Argvs == [test_collect : BOOLEAN, test_html : BOOLEAN]

\* what the agent may answer for a category: a text with one topic, a short
\* text whose only heading has an empty title, and a text with no heading
\* that is longer than the fallback summary
RawOneTopic == Chars("### a\nbody\nSource: https://example.com/a")
RawEmptyTitle == Chars("### \nbody")
RawLong == [i \in 1..(FallbackSummaryMax + 1) |-> IF i % 7 = 0 THEN " " ELSE "x"]
AgentTexts == {RawOneTopic, RawEmptyTitle, RawLong}
\* collect_category returns the text, or raises (non-zero exit, timeout,
\* output that is not JSON)
AgentOutcomes ==
    [ok : {TRUE}, text : AgentTexts] \cup [ok : {FALSE}, text : {<<>>}]

\* what notify_teams meets: no webhook configured, the post accepted, the
\* post or raise_for_status throwing
NotifyOutcomes == {"no_webhook", "sent", "post_failed"}

(***************************************************************************)
(* State.                                                                  *)
(***************************************************************************)
VARIABLES
    artifact,           \* OUTPUT_DIR/<today>.html exists
    pushed,             \* git push of today's report has succeeded
    runs,               \* invocations of the script so far
    pc,                 \* per process: where it stands in the script
    argv,               \* per process: its flags
    config,             \* per process: its load_config()
    attempt,            \* run_with_retry: the loop variable
    categories_result,  \* collect_all: the dict built so far, in order
    categories,         \* the report collect_all returned to its caller
    steps,              \* the external calls of the current attempt, in order
    runLog,             \* run_with_retry: attempts, failures, sleeps, success
    exc,                \* the exception being handled or propagated
    result,             \* how the last invocation ended
    text,               \* parse_topics: its argument
    parsed,             \* parse_topics: its return value
    parse_done          \* parse_topics has returned

pipelineVars ==
    <<artifact, pushed, runs, pc, argv, config, attempt, categories_result,
      categories, steps, runLog, exc, result>>
parseVars == <<text, parsed, parse_done>>
vars == <<pipelineVars, parseVars>>

NoExc == [attempt |-> 0, at |-> "none"]

InitPipeline ==
    /\ artifact = FALSE
    /\ pushed = FALSE
    /\ runs = 0
    /\ pc = [p \in Procs |-> "idle"]
    /\ argv = [p \in Procs |-> [test_collect |-> FALSE, test_html |-> FALSE]]
    /\ config = [p \in Procs |->
                    [retry_max |-> MaxRetryMax,
                     retry_interval_sec |-> DefaultRetryIntervalSec]]
    /\ attempt = [p \in Procs |-> 0]
    /\ categories_result = [p \in Procs |-> <<>>]
    /\ categories = [p \in Procs |-> <<>>]
    /\ steps = [p \in Procs |-> <<>>]
    /\ runLog = [p \in Procs |-> <<>>]
    /\ exc = [p \in Procs |-> NoExc]
    /\ result = [p \in Procs |-> "none"]

Init ==
    /\ InitPipeline
    /\ text = <<>>
    /\ parsed = <<>>
    /\ parse_done = FALSE

(***************************************************************************)
(* Helpers of the actions.                                                 *)
(***************************************************************************)
\* an external call: what was called, on what, whether it returned, and the
\* text it returned (the agent's answer)
Step(op, arg, ok, out) == [op |-> op, arg |-> arg, ok |-> ok, out |-> out]
Event(op, n) == [op |-> op, n |-> n]

\* the process is inside run_with_retry's try block (normal mode)
InRetryLoop(p) == ~argv[p].test_collect /\ ~argv[p].test_html

\* an exception leaves the step `at`: run_with_retry's handler catches it;
\* in the test modes nothing does and main ends with it
Throw(p, at) ==
    /\ exc' = [exc EXCEPT ![p] = [attempt |-> attempt[p], at |-> at]]
    /\ IF InRetryLoop(p)
       THEN /\ pc' = [pc EXCEPT ![p] = "except"]
            /\ result' = result
       ELSE /\ pc' = [pc EXCEPT ![p] = "idle"]
            /\ result' = [result EXCEPT ![p] = "raised"]

\* main returns
Return(p, how) ==
    /\ pc' = [pc EXCEPT ![p] = "idle"]
    /\ result' = [result EXCEPT ![p] = how]

\* (mutant) the duplicate check never skips
GateNeverSkips(a, exists) == FALSE

\* (mutant) the duplicate check looks at --test-html alone
GateSkipsInTestCollect(a, exists) == ~a.test_html /\ exists

\* (mutant) the duplicate check also skips while another invocation is past
\* its own check
GateSkipsWhenBusy(a, exists) ==
    /\ ~a.test_collect /\ ~a.test_html
    /\ (exists \/ \E q \in Procs : pc[q] \notin {"idle", "main"})

\* main, lines 308-310: normal mode and today's report exists
GateSkips(a, exists) == ~a.test_collect /\ ~a.test_html /\ exists

\* (mutant) the handler sleeps after the last attempt too
ShouldRetryOffByOne(a, max_retries) == a <= max_retries

\* run_with_retry, line 290
ShouldRetry(a, max_retries) == a < max_retries

\* (mutant) the fallback summary is the whole raw text
TopicsOrFallbackWhole(name, raw_result, topics) ==
    IF topics = <<>> THEN <<Topic(name, raw_result, <<>>)>> ELSE topics

\* collect_all, lines 137-140: the topics kept for a category
TopicsOrFallback(name, raw_result, topics) ==
    IF topics = <<>>
    THEN <<Topic(name, Take(raw_result, FallbackSummaryMax), <<>>)>>
    ELSE topics

\* (mutant) the push comes before the rendering
NextPcPushFirst(at, a) ==
    CASE at = "collect_all"          -> "git_push"
      [] at = "git_push"             -> "generate_report_html"
      [] at = "generate_report_html" -> "generate_index_html"
      [] at = "generate_index_html"  -> IF a.test_html THEN "return" ELSE "notify_teams"
      [] OTHER                       -> "return"

\* (mutant) --test-html goes on to the push as the normal mode does
NextPcTestHtmlPushes(at, a) ==
    CASE at = "collect_all"          -> "generate_report_html"
      [] at = "generate_report_html" -> "generate_index_html"
      [] at = "generate_index_html"  -> "git_push"
      [] at = "git_push"             -> "notify_teams"
      [] OTHER                       -> "return"

\* the statement order of run_with_retry (lines 270-283) and of main's
\* --test-html branch (lines 332-340): what follows a step that succeeded
NextPc(at, a) ==
    CASE at = "collect_all"          -> "generate_report_html"
      [] at = "generate_report_html" -> "generate_index_html"
      [] at = "generate_index_html"  -> IF a.test_html THEN "return" ELSE "git_push"
      [] at = "git_push"             -> "notify_teams"
      [] OTHER                       -> "return"

\* go on after the step `at` succeeded
Advance(p, at) ==
    IF NextPc(at, argv[p]) = "return"
    THEN Return(p, "returned")
    ELSE /\ pc' = [pc EXCEPT ![p] = NextPc(at, argv[p])]
         /\ result' = result

Log(p, step) == steps' = [steps EXCEPT ![p] = Append(@, step)]

(***************************************************************************)
(* Actions.                                                                *)
(***************************************************************************)
\* the script is started: main, lines 299-306
Invoke(p) ==
    /\ pc[p] = "idle"
    /\ runs < MaxRuns
    /\ runs' = runs + 1
    /\ \E a \in Argvs : argv' = [argv EXCEPT ![p] = a]
    /\ \E c \in Configs : config' = [config EXCEPT ![p] = c]
    /\ pc' = [pc EXCEPT ![p] = "main"]
    /\ result' = [result EXCEPT ![p] = "none"]
    /\ attempt' = [attempt EXCEPT ![p] = 0]
    /\ categories_result' = [categories_result EXCEPT ![p] = <<>>]
    /\ categories' = [categories EXCEPT ![p] = <<>>]
    /\ steps' = [steps EXCEPT ![p] = <<>>]
    /\ runLog' = [runLog EXCEPT ![p] = <<>>]
    /\ exc' = [exc EXCEPT ![p] = NoExc]
    /\ UNCHANGED <<artifact, pushed, parseVars>>

\* main, lines 308-343: the duplicate check and the choice of the mode
Main(p) ==
    /\ pc[p] = "main"
    /\ IF GateSkips(argv[p], artifact)
       THEN Return(p, "skipped")
       ELSE /\ result' = result
            /\ pc' = [pc EXCEPT ![p] =
                        IF argv[p].test_collect THEN "test_collect"
                        ELSE IF argv[p].test_html THEN "collect_all"
                        ELSE "for_attempt"]
    /\ UNCHANGED <<artifact, pushed, runs, argv, config, attempt,
                   categories_result, categories, steps, runLog, exc, parseVars>>

\* main, lines 314-327: --test-collect, the first category alone
TestCollect(p) ==
    /\ pc[p] = "test_collect"
    /\ \E r \in AgentOutcomes :
          /\ Log(p, Step("collect_category", 1, r.ok, r.text))
          /\ IF r.ok
             THEN Return(p, "returned") /\ exc' = exc
             ELSE Throw(p, "collect_category")
    /\ UNCHANGED <<artifact, pushed, runs, argv, config, attempt,
                   categories_result, categories, runLog, parseVars>>

\* (mutant) an attempt that follows one whose collection was complete
\* renders the report that attempt collected
ForAttemptCached(p) ==
    /\ pc[p] = "for_attempt"
    /\ IF attempt[p] + 1 > config[p].retry_max
       THEN /\ Return(p, "returned")
            /\ UNCHANGED <<attempt, categories_result, categories, steps, runLog>>
       ELSE /\ attempt' = [attempt EXCEPT ![p] = @ + 1]
            /\ runLog' = [runLog EXCEPT ![p] = Append(@, Event("attempt", attempt[p] + 1))]
            /\ steps' = [steps EXCEPT ![p] = <<>>]
            /\ categories_result' = [categories_result EXCEPT ![p] = <<>>]
            /\ categories' = categories
            /\ pc' = [pc EXCEPT ![p] = IF categories[p] # <<>>
                                       THEN "generate_report_html"
                                       ELSE "collect_all"]
            /\ result' = result
    /\ UNCHANGED <<artifact, pushed, runs, argv, config, exc, parseVars>>

\* (mutant) every attempt begins with the duplicate check
ForAttemptGated(p) ==
    /\ pc[p] = "for_attempt"
    /\ IF attempt[p] + 1 > config[p].retry_max
       THEN /\ Return(p, "returned")
            /\ UNCHANGED <<attempt, categories_result, categories, steps, runLog>>
       ELSE IF artifact
       THEN /\ Return(p, "skipped")
            /\ UNCHANGED <<attempt, categories_result, categories, steps, runLog>>
       ELSE /\ attempt' = [attempt EXCEPT ![p] = @ + 1]
            /\ runLog' = [runLog EXCEPT ![p] = Append(@, Event("attempt", attempt[p] + 1))]
            /\ steps' = [steps EXCEPT ![p] = <<>>]
            /\ categories_result' = [categories_result EXCEPT ![p] = <<>>]
            /\ categories' = [categories EXCEPT ![p] = <<>>]
            /\ pc' = [pc EXCEPT ![p] = "collect_all"]
            /\ result' = result
    /\ UNCHANGED <<artifact, pushed, runs, argv, config, exc, parseVars>>

\* run_with_retry, line 265: the next value of range(1, max_retries + 1);
\* the attempt begins, and collect_all with an empty dict (line 126)
ForAttempt(p) ==
    /\ pc[p] = "for_attempt"
    /\ IF attempt[p] + 1 > config[p].retry_max
       THEN \* the range is exhausted: run_with_retry falls off its end
            /\ Return(p, "returned")
            /\ UNCHANGED <<attempt, categories_result, categories, steps, runLog>>
       ELSE /\ attempt' = [attempt EXCEPT ![p] = @ + 1]
            /\ runLog' = [runLog EXCEPT ![p] = Append(@, Event("attempt", attempt[p] + 1))]
            /\ steps' = [steps EXCEPT ![p] = <<>>]
            /\ categories_result' = [categories_result EXCEPT ![p] = <<>>]
            /\ categories' = [categories EXCEPT ![p] = <<>>]
            /\ pc' = [pc EXCEPT ![p] = "collect_all"]
            /\ result' = result
    /\ UNCHANGED <<artifact, pushed, runs, argv, config, exc, parseVars>>

\* (mutant) the handler of collect_all logs the failure and goes on with the
\* next category
CollectCategoryBestEffort(p) ==
    /\ pc[p] = "collect_all"
    /\ LET key == Len(steps[p]) + 1
       IN  \E r \in AgentOutcomes :
              /\ Log(p, Step("collect_category", key, r.ok, r.text))
              /\ LET dict == IF r.ok
                             THEN Append(categories_result[p],
                                         [key |-> key, name |-> CategoryName(key),
                                          topics |-> TopicsOrFallback(
                                              CategoryName(key), r.text,
                                              parse_topics(r.text))])
                             ELSE categories_result[p]
                 IN  /\ categories_result' = [categories_result EXCEPT ![p] = dict]
                     /\ exc' = exc
                     /\ IF key = NumCats
                        THEN /\ categories' = [categories EXCEPT ![p] = dict]
                             /\ Advance(p, "collect_all")
                        ELSE UNCHANGED <<categories, pc, result>>
    /\ UNCHANGED <<artifact, pushed, runs, argv, config, attempt, runLog, parseVars>>

\* collect_all, lines 128-151: one pass of the loop, the next category in
\* configured order; after the last one the dict is returned.  An exception
\* of collect_category is logged and raised again, and the dict is lost
CollectCategory(p) ==
    /\ pc[p] = "collect_all"
    /\ LET key == Len(categories_result[p]) + 1
       IN  \E r \in AgentOutcomes :
              /\ Log(p, Step("collect_category", key, r.ok, r.text))
              /\ IF r.ok
                 THEN LET topics == TopicsOrFallback(CategoryName(key), r.text,
                                                     parse_topics(r.text))
                          dict   == Append(categories_result[p],
                                           [key |-> key, name |-> CategoryName(key),
                                            topics |-> topics])
                      IN  /\ categories_result' = [categories_result EXCEPT ![p] = dict]
                          /\ exc' = exc
                          /\ IF key = NumCats
                             THEN /\ categories' = [categories EXCEPT ![p] = dict]
                                  /\ Advance(p, "collect_all")
                             ELSE UNCHANGED <<categories, pc, result>>
                 ELSE /\ categories_result' = [categories_result EXCEPT ![p] = <<>>]
                      /\ categories' = categories
                      /\ Throw(p, "collect_category")
    /\ UNCHANGED <<artifact, pushed, runs, argv, config, attempt, runLog, parseVars>>

\* generate_report_html, lines 154-167: writes OUTPUT_DIR/<today>.html
GenerateReportHtml(p) ==
    /\ pc[p] = "generate_report_html"
    /\ \E ok \in BOOLEAN :
          /\ Log(p, Step("generate_report_html", 0, ok, <<>>))
          /\ IF ok
             THEN artifact' = TRUE /\ exc' = exc /\ Advance(p, "generate_report_html")
             ELSE artifact' = artifact /\ Throw(p, "generate_report_html")
    /\ UNCHANGED <<pushed, runs, argv, config, attempt, categories_result,
                   categories, runLog, parseVars>>

\* generate_index_html, lines 170-188
GenerateIndexHtml(p) ==
    /\ pc[p] = "generate_index_html"
    /\ \E ok \in BOOLEAN :
          /\ Log(p, Step("generate_index_html", 0, ok, <<>>))
          /\ IF ok
             THEN exc' = exc /\ Advance(p, "generate_index_html")
             ELSE Throw(p, "generate_index_html")
    /\ UNCHANGED <<artifact, pushed, runs, argv, config, attempt,
                   categories_result, categories, runLog, parseVars>>

\* git_push, lines 191-203: add, commit, push; a failure is raised again
GitPush(p) ==
    /\ pc[p] = "git_push"
    /\ \E ok \in BOOLEAN :
          /\ Log(p, Step("git_push", 0, ok, <<>>))
          /\ IF ok
             THEN pushed' = TRUE /\ exc' = exc /\ Advance(p, "git_push")
             ELSE pushed' = pushed /\ Throw(p, "git_push")
    /\ UNCHANGED <<artifact, runs, argv, config, attempt, categories_result,
                   categories, runLog, parseVars>>

\* (mutant) notify_teams lets the exception of the post out
NotifyTeamsPropagates(p) ==
    /\ pc[p] = "notify_teams"
    /\ \E o \in NotifyOutcomes :
          /\ Log(p, Step("notify_teams", o, o # "post_failed", <<>>))
          /\ IF o = "post_failed"
             THEN Throw(p, "notify_teams") /\ runLog' = runLog
             ELSE /\ runLog' = [runLog EXCEPT ![p] =
                                   Append(@, Event("succeeded", attempt[p]))]
                  /\ Return(p, "returned")
                  /\ exc' = exc
    /\ UNCHANGED <<artifact, pushed, runs, argv, config, attempt,
                   categories_result, categories, parseVars>>

\* notify_teams, lines 206-256, and run_with_retry's return, lines 285-286:
\* whatever the webhook does, notify_teams returns and the run has succeeded
NotifyTeams(p) ==
    /\ pc[p] = "notify_teams"
    /\ \E o \in NotifyOutcomes :
          Log(p, Step("notify_teams", o, o # "post_failed", <<>>))
    /\ runLog' = [runLog EXCEPT ![p] = Append(@, Event("succeeded", attempt[p]))]
    /\ Return(p, "returned")
    /\ UNCHANGED <<artifact, pushed, runs, argv, config, attempt,
                   categories_result, categories, exc, parseVars>>

\* run_with_retry, lines 288-295: the handler of a failed attempt sleeps and
\* goes round the loop, or raises the exception again after the last attempt
Except(p) ==
    /\ pc[p] = "except"
    /\ IF ShouldRetry(attempt[p], config[p].retry_max)
       THEN /\ runLog' = [runLog EXCEPT ![p] =
                             @ \o <<Event("failed", attempt[p]),
                                    Event("sleep", config[p].retry_interval_sec)>>]
            /\ pc' = [pc EXCEPT ![p] = "for_attempt"]
            /\ result' = result
       ELSE /\ runLog' = [runLog EXCEPT ![p] = Append(@, Event("failed", attempt[p]))]
            /\ Return(p, "raised")
    /\ UNCHANGED <<artifact, pushed, runs, argv, config, attempt,
                   categories_result, categories, steps, exc, parseVars>>

\* one step of process p
ProcNext(p) ==
    \/ Invoke(p)
    \/ Main(p)
    \/ TestCollect(p)
    \/ ForAttempt(p)
    \/ CollectCategory(p)
    \/ GenerateReportHtml(p)
    \/ GenerateIndexHtml(p)
    \/ GitPush(p)
    \/ NotifyTeams(p)
    \/ Except(p)

\* the script is run by one process, one invocation after the other
Next == ProcNext(1)

Spec == Init /\ [][Next]_vars

(***************************************************************************)
(* The script run by two processes at once (cron and a manual start, say): *)
(* every interleaving of their steps.  Nothing in the script orders them.  *)
(* To keep the interleavings countable the configurations and the agent's  *)
(* answers are narrowed: retry_max is 1 or 2 with the default interval,    *)
(* and an agent call that succeeds returns RawOneTopic.                    *)
(***************************************************************************)
ConcurrentConfigs ==
    [retry_max : 1..2, retry_interval_sec : {DefaultRetryIntervalSec}]
ConcurrentRun(p) ==
    /\ config[p] \in ConcurrentConfigs
    /\ \A i \in DOMAIN steps[p] : steps[p][i].out \in {<<>>, RawOneTopic}

NextConcurrent ==
    \E p \in Procs :
        \/ Invoke(p) /\ ConcurrentRun(p)'
        \/ Main(p)
        \/ TestCollect(p) /\ ConcurrentRun(p)'
        \/ ForAttempt(p)
        \/ CollectCategory(p) /\ ConcurrentRun(p)'
        \/ GenerateReportHtml(p)
        \/ GenerateIndexHtml(p)
        \/ GitPush(p)
        \/ NotifyTeams(p)
        \/ Except(p)

SpecConcurrent == Init /\ [][NextConcurrent]_vars

(***************************************************************************)
(* parse_topics on its own: the argument is any text of at most MaxLines   *)
(* lines taken from LinePool.                                              *)
(***************************************************************************)
LabeledLine == Chars("Source: https://example.com/a")
LinkLine == Chars("[x](https://example.com/b)")
LinePool ==
    {Chars("### a"), Chars("### "), Chars("###a"), Chars("### a ### b"),
     LabeledLine, LinkLine, Chars("b c"), <<>>, Chars("---")}
ParseInputs ==
    UNION {{Join(<<"\n">>, ls) : ls \in [1..n -> LinePool]} : n \in 0..MaxLines}

InitParse ==
    /\ InitPipeline
    /\ text \in ParseInputs
    /\ parsed = <<>>
    /\ parse_done = FALSE

\* a call of parse_topics, lines 79-121
ParseTopics ==
    /\ ~parse_done
    /\ parsed' = parse_topics(text)
    /\ parse_done' = TRUE
    /\ UNCHANGED <<text, pipelineVars>>

NextParse == ParseTopics

SpecParse == InitParse /\ [][NextParse]_vars

(***************************************************************************)
(* Properties.                                                             *)
(***************************************************************************)
Last(s) == s[Len(s)]
CountOp(log, op) == Cardinality({i \in DOMAIN log : log[i].op = op})

\* the invocation of p has ended
Ended(p) == pc[p] = "idle" /\ result[p] # "none"

\* the log of a run of run_with_retry whose attempts 1..k-1 failed and whose
\* attempt k succeeded (ok) or failed last: every failed attempt but the
\* last one is followed by one sleep of the configured interval
ExpectedRunLog(k, interval, ok) ==
    [i \in 1..(3 * (k - 1) + 2) |->
        LET j == ((i - 1) \div 3) + 1
            r == (i - 1) % 3
        IN  IF r = 0 THEN Event("attempt", j)
            ELSE IF r = 2 THEN Event("sleep", interval)
            ELSE IF j = k /\ ok THEN Event("succeeded", j)
            ELSE Event("failed", j)]

\* C1: a run of run_with_retry with retry_max = N >= 1 that returns has run
\* exactly k <= N attempts, the first k-1 failed and the k-th succeeded, with
\* exactly k-1 sleeps of retry_interval_sec; a run that raises has run exactly
\* N attempts, all failed, with exactly N-1 sleeps, raises the exception of
\* attempt N, and does nothing after the last failure.
C1_RetryCounts ==
    \A p \in Procs :
        (Ended(p) /\ InRetryLoop(p) /\ result[p] \in {"returned", "raised"}
            /\ config[p].retry_max >= 1) =>
        LET N == config[p].retry_max
            k == attempt[p]
        IN  /\ k \in 1..N
            /\ CountOp(runLog[p], "attempt") = k
            /\ CountOp(runLog[p], "sleep") = k - 1
            /\ runLog[p] = ExpectedRunLog(k, config[p].retry_interval_sec,
                                          result[p] = "returned")
            /\ result[p] = "raised" =>
                  /\ k = N
                  /\ exc[p].attempt = N
                  /\ ~Last(steps[p]).ok

\* attempts 1 and 2 failed, attempt 3 succeeded, with retry_max = 3
C1_Witness ==
    /\ Ended(1) /\ InRetryLoop(1) /\ result[1] = "returned"
    /\ config[1].retry_max = 3
    /\ attempt[1] = 3
    /\ CountOp(runLog[1], "sleep") = 2

\* C2: a normal-mode invocation that finds the day's report present ends at
\* once as skipped: no agent call, no rendering, no push, no notification,
\* no attempt of the retry loop.
C2_SecondCallSkips ==
    [][\A p \in Procs :
          (pc[p] = "main" /\ InRetryLoop(p) /\ artifact /\ pc'[p] # "main") =>
             /\ pc'[p] = "idle"
             /\ result'[p] = "skipped"
             /\ steps'[p] = <<>>
             /\ runLog'[p] = <<>>
             /\ attempt'[p] = 0
             /\ artifact' = artifact
             /\ pushed' = pushed]_vars

\* the second invocation has ended as skipped, the report being there
C2_Witness ==
    /\ runs = 2 /\ artifact
    /\ Ended(1) /\ result[1] = "skipped"
    /\ steps[1] = <<>>

\* C3: when collect_category fails for a category, no later category is
\* collected in that call of collect_all, the exception reaches the caller,
\* and no report, not even of the categories before it, is returned.
C3_FailFast ==
    \A p \in Procs :
        ~argv[p].test_collect =>
        \A i \in DOMAIN steps[p] :
            (steps[p][i].op = "collect_category" /\ ~steps[p][i].ok) =>
                /\ i = Len(steps[p])
                /\ \A j \in 1..(i - 1) :
                      /\ steps[p][j].op = "collect_category"
                      /\ steps[p][j].arg = j
                      /\ steps[p][j].ok
                /\ steps[p][i].arg = i
                /\ categories[p] = <<>>
                /\ categories_result[p] = <<>>
                /\ exc[p] = [attempt |-> attempt[p], at |-> "collect_category"]
                /\ IF InRetryLoop(p)
                   THEN pc[p] \in {"except", "for_attempt"}
                        \/ (Ended(p) /\ result[p] = "raised")
                   ELSE Ended(p) /\ result[p] = "raised"

\* category 2 of 3 failed: category 3 was not collected, nothing returned
C3_Witness ==
    /\ NumCats >= 3
    /\ Len(steps[1]) = 2
    /\ steps[1][2].op = "collect_category" /\ ~steps[1][2].ok
    /\ steps[1][1].ok
    /\ pc[1] = "except"

\* C4: when the webhook post throws in an attempt whose collection and
\* publication succeeded, the run returns as succeeded: the attempt is not
\* counted as failed, and no retry and no sleep follows.
C4_NotifyFailureIsSuccess ==
    \A p \in Procs :
        (steps[p] # <<>> /\ Last(steps[p]).op = "notify_teams"
            /\ Last(steps[p]).arg = "post_failed") =>
            /\ Ended(p) /\ result[p] = "returned"
            /\ Last(runLog[p]) = Event("succeeded", attempt[p])
            /\ \A i \in DOMAIN runLog[p] :
                  runLog[p][i].op \in {"failed", "sleep"} =>
                      i < Len(runLog[p]) - 1
            /\ exc[p].attempt # attempt[p]

\* the post failed after a successful push, and the run returned
C4_Witness ==
    /\ steps[1] # <<>>
    /\ Last(steps[1]) = Step("notify_teams", "post_failed", FALSE, <<>>)
    /\ steps[1][Len(steps[1]) - 1] = Step("git_push", 0, TRUE, <<>>)
    /\ Ended(1) /\ result[1] = "returned"

\* parse_topics of the texts of the agent, as pairs <<text, topics>>
ParsedAgentTexts == {<<raw, parse_topics(raw)>> : raw \in AgentTexts}
ParsedAgentText(raw) == (CHOOSE pair \in ParsedAgentTexts : pair[1] = raw)[2]

\* the topics collect_all is to keep for a category whose agent text is raw
ExpectedTopics(key, raw) ==
    IF ParsedAgentText(raw) # <<>> THEN ParsedAgentText(raw)
    ELSE <<[title   |-> CategoryName(key),
            summary |-> [i \in 1..(IF Len(raw) < 500 THEN Len(raw) ELSE 500) |-> raw[i]],
            source  |-> <<>>]>>

\* entry i of a dict of collect_all is the category i with the topics kept
\* for the text the agent returned in call i of this attempt
EntryFromStep(dict, log, i) ==
    /\ log[i].op = "collect_category" /\ log[i].arg = i /\ log[i].ok
    /\ dict[i].key = i
    /\ dict[i].name = CategoryName(i)
    /\ dict[i].topics = ExpectedTopics(i, log[i].out)

\* C5: every category of a report of collect_all (returned or being built)
\* has a non-empty topic list: the parsed topics unchanged when there are
\* some, else one fallback topic with the category's display name as title,
\* no source, and the first 500 characters of the raw text as summary.
C5_TopicsNonEmpty ==
    \A p \in Procs :
        ~argv[p].test_collect =>
        /\ \A i \in DOMAIN categories_result[p] :
              /\ Len(steps[p]) >= i
              /\ EntryFromStep(categories_result[p], steps[p], i)
              /\ categories_result[p][i].topics # <<>>
              /\ \A t \in DOMAIN categories_result[p][i].topics :
                    ParsedAgentText(steps[p][i].out) = <<>> =>
                       /\ Len(categories_result[p][i].topics) = 1
                       /\ Len(categories_result[p][i].topics[t].summary) <= 500
        /\ categories[p] # <<>> => categories[p] = categories_result[p]

\* a report was returned in which a category has the fallback topic, cut to
\* 500 characters of a longer raw text
C5_Witness ==
    /\ categories[1] # <<>>
    /\ \E i \in DOMAIN categories[1] :
          /\ steps[1][i].out = RawLong
          /\ Len(RawLong) > 500
          /\ Len(categories[1][i].topics) = 1
          /\ categories[1][i].topics[1].title = CategoryName(i)
          /\ Len(categories[1][i].topics[1].summary) = 500

\* the external calls of a complete attempt, in order
StepOrder ==
    [i \in 1..(NumCats + 4) |->
        IF i <= NumCats THEN "collect_category"
        ELSE <<"generate_report_html", "generate_index_html", "git_push",
               "notify_teams">>[i - NumCats]]

\* C6: in every attempt of run_with_retry the external calls form a prefix
\* of: collect_category for every category in order, generate_report_html,
\* generate_index_html, git_push, notify_teams; a call is made only after
\* every call before it in that attempt succeeded, and a failed collection
\* or publication call is the last call of its attempt.
C6_StepOrder ==
    \A p \in Procs :
        InRetryLoop(p) =>
        /\ Len(steps[p]) <= NumCats + 4
        /\ \A i \in DOMAIN steps[p] :
              /\ steps[p][i].op = StepOrder[i]
              /\ i <= NumCats => steps[p][i].arg = i
              /\ i < Len(steps[p]) => steps[p][i].ok
        /\ (steps[p] # <<>> /\ ~Last(steps[p]).ok
                /\ Last(steps[p]).op # "notify_teams") =>
              (pc[p] \in {"except", "for_attempt"} \/ Ended(p))
        /\ pc[p] = "generate_report_html" => Len(steps[p]) = NumCats
        /\ pc[p] = "generate_index_html" => Len(steps[p]) = NumCats + 1
        /\ pc[p] = "git_push" => Len(steps[p]) = NumCats + 2
        /\ pc[p] = "notify_teams" => Len(steps[p]) = NumCats + 3

\* an attempt ran every step, up to the notification
C6_Witness ==
    /\ InRetryLoop(1) /\ Ended(1)
    /\ Len(steps[1]) = NumCats + 4
    /\ Last(steps[1]).op = "notify_teams"
    /\ artifact /\ pushed

\* C7: nothing collected is carried from one attempt to the next: while an
\* attempt collects, its dict holds exactly the categories its own agent
\* calls returned, from the first category on, and the report it renders and
\* pushes is the one built from one agent call per category, in configured
\* order, made in that same attempt.
C7_FreshCollection ==
    \A p \in Procs :
        InRetryLoop(p) =>
        /\ pc[p] = "collect_all" =>
              /\ categories[p] = <<>>
              /\ Len(steps[p]) = Len(categories_result[p])
              /\ \A i \in DOMAIN steps[p] :
                    EntryFromStep(categories_result[p], steps[p], i)
        /\ pc[p] \in {"generate_report_html", "generate_index_html", "git_push",
                      "notify_teams"} =>
              /\ Len(categories[p]) = NumCats
              /\ Len(steps[p]) >= NumCats
              /\ \A i \in 1..NumCats : EntryFromStep(categories[p], steps[p], i)
              /\ \A i \in (NumCats + 1)..Len(steps[p]) :
                    steps[p][i].op # "collect_category"

\* the attempt before collected every category and failed at git push; this
\* attempt has collected every category again
C7_Witness ==
    /\ InRetryLoop(1)
    /\ attempt[1] >= 2
    /\ exc[1] = [attempt |-> attempt[1] - 1, at |-> "git_push"]
    /\ pc[1] = "generate_report_html"
    /\ Len(steps[1]) = NumCats
    /\ \A i \in 1..NumCats : steps[1][i].ok

\* the lines of the argument of parse_topics
TextLines == SplitLines(text)
IsHeadingLine(line) == StartsWithAt(line, 1, HeadingMarker)
\* a heading line without its "### " prefix and surrounding white space
HeadingText(line) == Strip(DropTo(line, Len(HeadingMarker) + 1))

\* the text is one block: a heading with a title, then lines that are not
\* headings
OneBlock ==
    /\ IsHeadingLine(TextLines[1])
    /\ HeadingText(TextLines[1]) # <<>>
    /\ \A k \in 2..Len(TextLines) : ~IsHeadingLine(TextLines[k])

\* the block holds the labeled source line and, later, the markdown link
LabelThenLink ==
    /\ OneBlock
    /\ \E i, j \in 2..Len(TextLines) :
          i < j /\ TextLines[i] = LabeledLine /\ TextLines[j] = LinkLine

UrlA == Chars("https://example.com/a")
UrlB == Chars("https://example.com/b")

\* C8 (as claimed): in a block with the labeled source line followed later by
\* the markdown link, the topic's source is the labeled URL.
C8_LabeledSourceKept ==
    (parse_done /\ LabelThenLink) =>
        (Len(parsed) = 1 /\ parsed[1].source = UrlA)

\* C8 (amended): in such a block the markdown link replaces the labeled
\* source: the topic's source is the URL of the last source line of the
\* block, labeled or markdown link alike.
C8_LastSourceWins ==
    (parse_done /\ LabelThenLink) =>
        LET srcs == {k \in 2..Len(TextLines) :
                        TextLines[k] \in {LabeledLine, LinkLine}}
            last == CHOOSE k \in srcs : \A j \in srcs : j <= k
        IN  /\ Len(parsed) = 1
            /\ parsed[1].source = IF TextLines[last] = LinkLine THEN UrlB ELSE UrlA

\* the heading, the labeled source line, the markdown link: the source is
\* the link's URL
C8_Witness ==
    /\ parse_done
    /\ text = Join(<<"\n">>, <<Chars("### a"), LabeledLine, LinkLine>>)
    /\ parsed = <<Topic(<<"a">>, <<>>, UrlB)>>

\* C9 (as claimed): a text none of whose lines starts with "### " yields no
\* topic.
C9_NoHeadingNoTopics ==
    (parse_done /\ \A k \in DOMAIN TextLines : ~IsHeadingLine(TextLines[k])) =>
        parsed = <<>>

\* the titles the headings of the text are to give, in order: the heading
\* texts that are not empty
ExpectedTitles ==
    LET hs == SortedSeq({k \in DOMAIN TextLines :
                            /\ IsHeadingLine(TextLines[k])
                            /\ HeadingText(TextLines[k]) # <<>>})
    IN  [j \in 1..Len(hs) |-> HeadingText(TextLines[hs[j]])]

\* C10 (as claimed): in a text that begins with a heading, the titles of the
\* topics are the heading lines without their leading "### " and surrounding
\* white space, and a heading left with an empty title gives no topic.
C10_TitleIsHeadingText ==
    (parse_done /\ IsHeadingLine(TextLines[1])) =>
        [i \in 1..Len(parsed) |-> parsed[i].title] = ExpectedTitles

\* C11: an invocation with --test-collect, whatever --test-html says and
\* whether or not the day's report exists, passes by the duplicate check to
\* the test collection, makes exactly one agent call, for the first
\* category, and ends; no step of it writes the report or pushes, and its
\* only external call is that collect_category (no notification, no attempt
\* of the retry loop).
C11_TestCollectOnly ==
    [][\A p \in Procs :
          (argv[p].test_collect /\ pc[p] # "idle" /\ pc'[p] # pc[p]) =>
             /\ artifact' = artifact
             /\ pushed' = pushed
             /\ runLog'[p] = <<>>
             /\ attempt'[p] = 0
             /\ pc[p] \in {"main", "test_collect"}
             /\ pc[p] = "main" =>
                   /\ pc'[p] = "test_collect"
                   /\ steps'[p] = <<>>
             /\ pc[p] = "test_collect" =>
                   /\ pc'[p] = "idle"
                   /\ result'[p] \in {"returned", "raised"}
                   /\ Len(steps'[p]) = 1
                   /\ steps'[p][1].op = "collect_category"
                   /\ steps'[p][1].arg = 1]_vars

\* the day's report exists, and an invocation with both flags has ended
\* after its one agent call
C11_Witness ==
    /\ runs = 2 /\ artifact
    /\ argv[1].test_collect /\ argv[1].test_html
    /\ Ended(1) /\ result[1] = "returned"
    /\ Len(steps[1]) = 1
    /\ steps[1][1].op = "collect_category" /\ steps[1][1].arg = 1

\* what C12 says of the invocation of p: it collects every category in
\* order and renders the report and the index, and calls nothing else (no
\* git push, no notification); it is outside the retry loop (no attempt, no
\* sleep), so a failed call is its last and ends it with the exception; when
\* it returns, every category was collected and the report is written.
TestHtmlRun(p) ==
    /\ runLog[p] = <<>>
    /\ attempt[p] = 0
    /\ pc[p] \in {"main", "collect_all", "generate_report_html",
                  "generate_index_html", "idle"}
    /\ Len(steps[p]) <= NumCats + 2
    /\ \A i \in DOMAIN steps[p] :
          /\ steps[p][i].op = StepOrder[i]
          /\ i <= NumCats => steps[p][i].arg = i
          /\ i < Len(steps[p]) => steps[p][i].ok
    /\ (steps[p] # <<>> /\ ~Last(steps[p]).ok) =>
          (Ended(p) /\ result[p] = "raised")
    /\ Ended(p) =>
          /\ result[p] \in {"returned", "raised"}
          /\ result[p] = "returned" =>
                /\ Len(steps[p]) = NumCats + 2
                /\ Last(steps[p]).ok
                /\ artifact

\* C12 (as claimed): an invocation with --test-html, whatever the other
\* flags, collects every category and renders the day's report, never pushes
\* or notifies, and collects once, outside the retry loop.
C12_TestHtmlAnyFlags ==
    \A p \in Procs : argv[p].test_html => TestHtmlRun(p)

\* C12 (amended): an invocation with --test-html and without --test-collect
\* collects every category and renders the day's report, never pushes or
\* notifies, and collects once, outside the retry loop: a failed collection
\* ends the invocation without retry.
C12_TestHtmlWithoutTestCollect ==
    \A p \in Procs :
        (argv[p].test_html /\ ~argv[p].test_collect) => TestHtmlRun(p)

\* an invocation with --test-html alone has collected every category and
\* rendered the report, and nothing was pushed
C12_Witness ==
    /\ argv[1].test_html /\ ~argv[1].test_collect
    /\ Ended(1) /\ result[1] = "returned"
    /\ Len(steps[1]) = NumCats + 2
    /\ Last(steps[1]) = Step("generate_index_html", 0, TRUE, <<>>)
    /\ artifact /\ ~pushed

\* C13 (as claimed): whenever no invocation is under way and the day's report
\* exists, so that the next normal-mode invocation skips, a git push of the
\* day has succeeded.
C13_ArtifactImpliesPushed ==
    ((\A p \in Procs : pc[p] = "idle") /\ artifact) => pushed

\* C14 (as claimed): for every retry_max, a run of run_with_retry that
\* returns has made an attempt whose collection, rendering and git push all
\* succeeded, and a run that raises has made exactly retry_max attempts, all
\* of them failed.
C14_ReturnsOnlyAfterSuccess ==
    \A p \in Procs :
        (Ended(p) /\ InRetryLoop(p)) =>
            /\ result[p] = "returned" =>
                  /\ attempt[p] >= 1
                  /\ Len(steps[p]) >= NumCats + 3
                  /\ \A i \in 1..(NumCats + 3) :
                        steps[p][i].op = StepOrder[i] /\ steps[p][i].ok
            /\ result[p] = "raised" =>
                  /\ attempt[p] = config[p].retry_max
                  /\ CountOp(runLog[p], "attempt") = config[p].retry_max
                  /\ CountOp(runLog[p], "failed") = config[p].retry_max

\* C15: a normal-mode run evaluates the duplicate check once, on entry,
\* before any attempt and any call: a run is skipped by that step alone; the
\* handler of a failed attempt with attempts left goes round the loop, and
\* the loop begins the next attempt with a fresh collection whether or not
\* the report exists, so an attempt after one that rendered the report and
\* failed at git push collects, renders and reaches the push again.
C15_GateOncePerRun ==
    [][\A p \in Procs :
          (~argv'[p].test_collect /\ ~argv'[p].test_html) =>
             /\ (pc'[p] = "main" /\ pc[p] # "main") => pc[p] = "idle"
             /\ (pc[p] = "main" /\ pc'[p] # "main") =>
                   /\ attempt[p] = 0 /\ steps[p] = <<>> /\ runLog[p] = <<>>
                   /\ pc'[p] = IF artifact THEN "idle" ELSE "for_attempt"
             /\ (result'[p] = "skipped" /\ result[p] # "skipped") => pc[p] = "main"
             /\ (pc[p] = "except" /\ pc'[p] # "except"
                    /\ attempt[p] < config[p].retry_max) =>
                   pc'[p] = "for_attempt"
             /\ (pc[p] = "for_attempt" /\ pc'[p] # "for_attempt"
                    /\ attempt[p] < config[p].retry_max) =>
                   /\ pc'[p] = "collect_all"
                   /\ attempt'[p] = attempt[p] + 1
                   /\ steps'[p] = <<>>
                   /\ categories_result'[p] = <<>>
             /\ (pc[p] = "git_push" /\ exc[p].at = "git_push"
                    /\ exc[p].attempt < attempt[p]) =>
                   /\ artifact
                   /\ Len(steps[p]) = NumCats + 2
                   /\ \A i \in DOMAIN steps[p] :
                         steps[p][i].op = StepOrder[i] /\ steps[p][i].ok]_vars

\* attempt 1 rendered the report and failed at git push; attempt 2 collected
\* and rendered again and its push succeeded
C15_Witness ==
    /\ InRetryLoop(1)
    /\ attempt[1] = 2
    /\ exc[1] = [attempt |-> 1, at |-> "git_push"]
    /\ artifact /\ pushed
    /\ pc[1] = "notify_teams"
    /\ Len(steps[1]) = NumCats + 3
    /\ Last(steps[1]) = Step("git_push", 0, TRUE, <<>>)

\* C16: nothing excludes two normal-mode invocations of the same day from
\* each other: the duplicate check of an invocation looks at the report
\* alone, so it lets the invocation into the retry loop whenever the report
\* is not yet written, whatever another invocation is doing at the time;
\* both then call the agent and push (C16_Witness).
C16_NoMutualExclusion ==
    [][\A p \in Procs :
          (pc[p] = "main" /\ InRetryLoop(p) /\ pc'[p] # "main") =>
             /\ ~artifact => (pc'[p] = "for_attempt" /\ result'[p] = "none")
             /\ artifact => (pc'[p] = "idle" /\ result'[p] = "skipped")]_vars

\* two normal-mode invocations are under way at once, each in its first
\* attempt: both passed the check (which each made before either wrote the
\* report, for a written report is never removed), both called the agent
\* for every category, and both have pushed
C16_Witness ==
    \A p \in Procs :
        /\ InRetryLoop(p)
        /\ pc[p] = "notify_teams"
        /\ runLog[p] = <<Event("attempt", 1)>>
        /\ Len(steps[p]) = NumCats + 3
        /\ \A i \in 1..NumCats :
              steps[p][i].op = "collect_category" /\ steps[p][i].ok
        /\ steps[p][NumCats + 3] = Step("git_push", 0, TRUE, <<>>)

\* the lines of the text that are headings with a title, in order
TitledHeadings ==
    SortedSeq({k \in DOMAIN TextLines :
                  /\ IsHeadingLine(TextLines[k])
                  /\ HeadingText(TextLines[k]) # <<>>})

\* C17 (as claimed): parse_topics returns exactly one topic for every line
\* that starts with "### " and has a title, in the order of those lines,
\* equal titles kept apart; the topic of a heading that has no body lines
\* (the next line is a heading, or the text ends) has an empty summary and
\* an empty source.
C17_OneTopicPerHeading ==
    parse_done =>
        /\ Len(parsed) = Len(TitledHeadings)
        /\ \A j \in 1..Len(TitledHeadings) :
              LET k == TitledHeadings[j]
              IN  /\ parsed[j].title = HeadingText(TextLines[k])
                  /\ (k = Len(TextLines) \/ IsHeadingLine(TextLines[k + 1])) =>
                        (parsed[j].summary = <<>> /\ parsed[j].source = <<>>)

=============================================================================
